---- MODULE Spec2Model ----
(***************************************************************************)
(* Shiny output binding for a Tabulator table.                             *)
(*                                                                         *)
(* src/tableComponent.js : makeShinyOutputBinding (the binding factory)    *)
(*                         and the table adapter passed to it as onRender. *)
(* src/unnamed/part_000  : the same adapter written directly as            *)
(*                         TabulatorOutputBinding.renderValue.             *)
(*                                                                         *)
(* JavaScript values are encoded as follows.                               *)
(*   array            a sequence                                           *)
(*   payload.columns  Arr(s) for an array, Undefined for a missing field   *)
(*   plain object     a function whose DOMAIN is the set of its own keys   *)
(*   type hint        a record naming its shape ("string", "object") and   *)
(*                    the tag it carries, so that  h === "numeric"  can be *)
(*                    told apart from  h.type === "numeric"                *)
(*   DOM element      classList, the text set through innerText, and the   *)
(*                    table widget drawn in it                             *)
(***************************************************************************)
EXTENDS Integers, Sequences, FiniteSets, TLC

VARIABLES
    Shiny,          \* the global `Shiny`: "present", "falsy" or "undeclared"
    outputBindings, \* Shiny.outputBindings: the bindings registered, in order
    el,             \* the managed element
    events,         \* the methods the host called on the binding, in order
    calls,          \* the configured callbacks the binding invoked, in order
    last,           \* the most recent operation, its arguments and outcome
    prior           \* the element before the last event and the one before it

vars == <<Shiny, outputBindings, el, events, calls, last, prior>>

----------------------------------------------------------------------------
(* Bounds *)

MaxBindings == 3

MaxEvents == 3

MaxCols == 2

MaxRows == 2

----------------------------------------------------------------------------
(* Values *)

Names == {"shiny-tabulator-output", "dataTable"}

Impls == {"default", "custom"}

ErrorClass == "shiny-output-error"

ColNames == {"name", "mpg", "__proto__"}

Values == {"Mazda RX4", "21.0"}

Undefined == [isArray |-> FALSE, items |-> <<>>]

Arr(s) == [isArray |-> TRUE, items |-> s]

HintString(t) == [shape |-> "string", tag |-> t]

HintObject(t) == [shape |-> "object", tag |-> t]

HintUndefined == [shape |-> "undefined", tag |-> "undefined"]

Hints == {HintString("numeric"), HintString("character"),
          HintObject("numeric"), HintObject("character")}

SeqsUpTo(S, n) == UNION {[1..k -> S] : k \in 0..n}

NoTable == [present |-> FALSE, data |-> <<>>, layout |-> "", columns |-> <<>>]

EmptyElement == [classList |-> {}, innerText |-> "", table |-> NoTable]

NoPayload == [columns |-> Undefined, data |-> <<>>, type_hints |-> <<>>]

----------------------------------------------------------------------------
(* The table adapter: onRender *)

\* obj[key] = val on a plain object. Assigning a scalar to "__proto__" goes
\* to the inherited setter and creates no own key.
Put(obj, key, val) ==
    IF key = "__proto__"
    THEN obj
    ELSE [k \in (DOMAIN obj) \cup {key} |-> IF k = key THEN val ELSE obj[k]]

\* columns[i] used as a property key; past the end it is undefined, which
\* as a key is the string "undefined". Indices here are 1-based.
ColumnAt(columns, i) ==
    IF i \in DOMAIN columns THEN columns[i] ELSE "undefined"

\* type_hints[i]; past the end it is undefined.
HintAt(type_hints, i) ==
    IF i \in DOMAIN type_hints THEN type_hints[i] ELSE HintUndefined

\* type_hints[i] === "numeric"
IsNumericHint(h) ==
    h.shape = "string" /\ h.tag = "numeric"

RECURSIVE forEachAssign(_, _, _, _)
forEachAssign(columns, row, i, obj) ==
    IF i > Len(row)
    THEN obj
    ELSE forEachAssign(columns, row, i + 1,
                       Put(obj, ColumnAt(columns, i), row[i]))

\* Mutant: the loop starts one value late.
zipRowWithColumns_SkipFirst(columns, row) ==
    forEachAssign(columns, row, 2, <<>>)

zipRowWithColumns(columns, row) ==
    forEachAssign(columns, row, 1, <<>>)

columnsDef(columns, type_hints) ==
    [i \in 1..Len(columns) |->
        [title    |-> columns[i],
         field    |-> columns[i],
         hozAlign |-> IF IsNumericHint(HintAt(type_hints, i))
                      THEN "right" ELSE "left"]]

\* new Tabulator(el, options): the widget empties the element and draws the
\* table described by options in it.
Tabulator(e, options) ==
    [e EXCEPT !.innerText = "",
              !.table = [present |-> TRUE,
                         data    |-> options.data,
                         layout  |-> options.layout,
                         columns |-> options.columns]]

\* The outcome of a call: the element afterwards, and whether it threw.
Returned(e) == [el |-> e, threw |-> FALSE, error |-> ""]

Threw(e, err) == [el |-> e, threw |-> TRUE, error |-> err]

\* The table built from a payload: the options passed to the widget.
TableOptions(payload) ==
    LET columns == payload.columns.items
    IN  [data    |-> [j \in 1..Len(payload.data) |->
                         zipRowWithColumns(columns, payload.data[j])],
         layout  |-> "fitColumns",
         columns |-> columnsDef(columns, payload.type_hints)]

\* Mutant: the rows of the previous table are kept in front of the new.
onRender_Accumulate(e, payload) ==
    IF ~payload.columns.isArray
    THEN Threw(e, "TypeError")
    ELSE Returned(Tabulator(e,
            [TableOptions(payload) EXCEPT !.data = e.table.data \o @]))

\* Mutant: the render takes the error class off the element.
onRender_ClearsMarker(e, payload) ==
    IF ~payload.columns.isArray
    THEN Threw(e, "TypeError")
    ELSE Returned(Tabulator([e EXCEPT !.classList = @ \ {ErrorClass}],
                            TableOptions(payload)))

onRender(e, payload) ==
    IF ~payload.columns.isArray
    THEN Threw(e, "TypeError")
    ELSE Returned(Tabulator(e, TableOptions(payload)))

----------------------------------------------------------------------------
(* The binding factory: makeShinyOutputBinding *)

Configs == [name : Names, onError : Impls, onClearError : Impls]

defaultOnError(name, e) ==
    [e EXCEPT !.classList = @ \cup {ErrorClass},
              !.innerText = "Error rendering " \o name,
              !.table = NoTable]

\* Mutant: the class is removed and the text is left.
defaultOnClearError_KeepText(e) ==
    [e EXCEPT !.classList = @ \ {ErrorClass}]

defaultOnClearError(e) ==
    [e EXCEPT !.classList = @ \ {ErrorClass},
              !.innerText = "",
              !.table = NoTable]

\* A callback supplied by the caller in place of a default; it is recorded
\* in `calls` and leaves the element alone.
customCallback(e) == e

\* Mutant: the default runs whether or not onError was supplied.
onError_AlwaysDefault(config, e) ==
    defaultOnError(config.name, e)

onError(config, e) ==
    IF config.onError = "default"
    THEN defaultOnError(config.name, e)
    ELSE customCallback(e)

onClearError(config, e) ==
    IF config.onClearError = "default"
    THEN defaultOnClearError(e)
    ELSE customCallback(e)

Call(fn, impl) == [fn |-> fn, impl |-> impl]

\* CustomOutputBinding's methods: what each does to the element, the
\* callbacks it invokes, and whether it throws.
\* Mutant: an error thrown by onRender is caught and handed to onError.
renderValue_CatchAndReport(config, e, payload) ==
    LET r == onRender(e, payload)
    IN  IF r.threw
        THEN [el |-> onError(config, r.el), threw |-> FALSE, error |-> "",
              calls |-> <<Call("onRender", "tabulator"),
                          Call("onError", config.onError)>>]
        ELSE [el |-> r.el, threw |-> FALSE, error |-> "",
              calls |-> <<Call("onRender", "tabulator")>>]

renderValue(config, e, payload) ==
    LET r == onRender(e, payload)
    IN  [el |-> r.el, threw |-> r.threw, error |-> r.error,
         calls |-> <<Call("onRender", "tabulator")>>]

renderError(config, e) ==
    [el |-> onError(config, e), threw |-> FALSE, error |-> "",
     calls |-> <<Call("onError", config.onError)>>]

clearError(config, e) ==
    [el |-> onClearError(config, e), threw |-> FALSE, error |-> "",
     calls |-> <<Call("onClearError", config.onClearError)>>]

\* Shiny.outputBindings.register(binding, name)
register(registry, config) == Append(registry, config)

\* Mutant: the binding is registered before Shiny is tested.
makeShinyOutputBinding_NoGuard(shiny, registry, config) ==
    [registry |-> register(registry, config),
     threw    |-> shiny # "present",
     error    |-> IF shiny = "present" THEN "" ELSE "ReferenceError"]

makeShinyOutputBinding(shiny, registry, config) ==
    IF shiny = "present"
    THEN [registry |-> register(registry, config), threw |-> FALSE,
          error |-> ""]
    ELSE IF shiny = "falsy"
    THEN [registry |-> registry, threw |-> TRUE,
          error |-> "Failed to bind " \o config.name \o " to Shiny runtime."]
    ELSE [registry |-> registry, threw |-> TRUE, error |-> "ReferenceError"]

----------------------------------------------------------------------------
(* Payloads *)

\* The example payload of the README's app, one and two rows of it, and
\* payloads that break the row/column agreement.
ExampleColumns == <<"name", "mpg">>

ExampleHints == <<HintString("character"), HintString("numeric")>>

OneRow ==
    [columns |-> Arr(ExampleColumns), type_hints |-> ExampleHints,
     data |-> << <<"Mazda RX4", "21.0">> >>]

TwoRows ==
    [columns |-> Arr(ExampleColumns), type_hints |-> ExampleHints,
     data |-> << <<"Mazda RX4", "21.0">>, <<"21.0", "Mazda RX4">> >>]

ShortRow ==
    [columns |-> Arr(ExampleColumns), type_hints |-> ExampleHints,
     data |-> << <<"Mazda RX4">> >>]

LongRow ==
    [columns |-> Arr(<<"name">>), type_hints |-> <<HintString("character")>>,
     data |-> << <<"Mazda RX4", "21.0">> >>]

NoColumns ==
    [columns |-> Undefined, type_hints |-> ExampleHints,
     data |-> << <<"Mazda RX4", "21.0">> >>]

SamplePayloads == {OneRow, TwoRows, ShortRow, LongRow, NoColumns}

\* Payloads with k columns: every choice of column names with, on one side,
\* every data of at most MaxRows rows whose rows have as many values as
\* there are columns, or one more, under the example's hints; and on the
\* other side every choice of type_hints over one row of data.
RowsOfWidth(k) == [1..k -> Values] \cup [1..(k + 1) -> Values]

PayloadsOfWidth(k) ==
    [columns    : {Arr(c) : c \in [1..k -> ColNames]},
     type_hints : {[i \in 1..k |-> HintString("character")]},
     data       : SeqsUpTo(RowsOfWidth(k), MaxRows)]
    \cup
    [columns    : {Arr(c) : c \in [1..k -> ColNames]},
     type_hints : [1..k -> Hints],
     data       : {<<[i \in 1..k |-> "21.0"]>>}]

WidePayloads == UNION {PayloadsOfWidth(k) : k \in 0..MaxCols}

----------------------------------------------------------------------------
(* State machine *)

NoOp == [op |-> "none", config |-> [name |-> "", onError |-> "",
         onClearError |-> ""], payload |-> NoPayload, threw |-> FALSE,
         error |-> ""]

TypeOK ==
    /\ Shiny \in {"present", "falsy", "undeclared"}
    /\ outputBindings \in SeqsUpTo(Configs, MaxBindings)
    /\ Len(events) <= MaxEvents

\* Before the module is loaded: nothing registered, the element as
\* output_tabulator() created it.
InitLoad ==
    /\ Shiny \in {"present", "falsy", "undeclared"}
    /\ outputBindings = <<>>
    /\ el = EmptyElement
    /\ events = <<>>
    /\ calls = <<>>
    /\ last = NoOp
    /\ prior = [one |-> EmptyElement, two |-> EmptyElement]

\* The binding the module itself creates: the name and onRender given, the
\* default onError and onClearError.
TableBinding ==
    [name |-> "shiny-tabulator-output", onError |-> "default",
     onClearError |-> "default"]

\* After tableComponent.js is loaded with Shiny present.
InitModule ==
    /\ Shiny = "present"
    /\ outputBindings = <<TableBinding>>
    /\ el = EmptyElement
    /\ events = <<>>
    /\ calls = <<>>
    /\ last = NoOp
    /\ prior = [one |-> EmptyElement, two |-> EmptyElement]

\* After a module is loaded with Shiny present: one binding registered,
\* under any name and with or without callbacks of its own.
Init ==
    /\ Shiny = "present"
    /\ \E c \in Configs : outputBindings = <<c>>
    /\ el = EmptyElement
    /\ events = <<>>
    /\ calls = <<>>
    /\ last = NoOp
    /\ prior = [one |-> EmptyElement, two |-> EmptyElement]

\* The module-level call makeShinyOutputBinding({...}).
MakeShinyOutputBinding ==
    \E c \in Configs :
        LET r == makeShinyOutputBinding(Shiny, outputBindings, c)
        IN  /\ Len(outputBindings) < MaxBindings
            /\ outputBindings' = r.registry
            /\ last' = [op |-> "makeShinyOutputBinding", config |-> c,
                        payload |-> NoPayload, threw |-> r.threw,
                        error |-> r.error]
            /\ UNCHANGED <<Shiny, el, events, calls, prior>>

\* The host calling one method of a registered binding on the element.
Deliver(method, config, payload, r) ==
    /\ Len(events) < MaxEvents
    /\ el' = r.el
    /\ events' = Append(events, method)
    /\ calls' = calls \o r.calls
    /\ last' = [op |-> method, config |-> config, payload |-> payload,
                threw |-> r.threw, error |-> r.error]
    /\ prior' = [one |-> el, two |-> prior.one]
    /\ UNCHANGED <<Shiny, outputBindings>>

RenderValueFrom(payloads) ==
    \E i \in DOMAIN outputBindings, p \in payloads :
        Deliver("renderValue", outputBindings[i], p,
                renderValue(outputBindings[i], el, p))

RenderValue == RenderValueFrom(SamplePayloads)

RenderWide == events = <<>> /\ RenderValueFrom(WidePayloads)

RenderError ==
    \E i \in DOMAIN outputBindings :
        Deliver("renderError", outputBindings[i], NoPayload,
                renderError(outputBindings[i], el))

ClearError ==
    \E i \in DOMAIN outputBindings :
        Deliver("clearError", outputBindings[i], NoPayload,
                clearError(outputBindings[i], el))

Next == RenderValue \/ RenderError \/ ClearError

Spec == Init /\ [][Next]_vars

NextRegister == MakeShinyOutputBinding

SpecRegister == InitLoad /\ [][NextRegister]_vars

NextPayload == RenderWide

SpecPayload == InitModule /\ [][NextPayload]_vars

----------------------------------------------------------------------------
(* Vocabulary of the properties *)

Range(f) == {f[i] : i \in DOMAIN f}

Distinct(f) == \A i, j \in DOMAIN f : i # j => f[i] # f[j]

\* The last operation was a renderValue that returned normally.
RenderedOK == last.op = "renderValue" /\ ~last.threw

\* Every row has as many values as there are columns, and type_hints has
\* as many entries as there are columns.
ValidPayload(p) ==
    /\ p.columns.isArray
    /\ \A j \in DOMAIN p.data : Len(p.data[j]) = Len(p.columns.items)
    /\ Len(p.type_hints) = Len(p.columns.items)

\* Some row's length differs from columns.length, or columns is missing.
MalformedPayload(p) ==
    \/ ~p.columns.isArray
    \/ \E j \in DOMAIN p.data : Len(p.data[j]) # Len(p.columns.items)

\* A hint denotes numeric as the bare string or as an object's type field.
DenotesNumeric(h) ==
    h.shape \in {"string", "object"} /\ h.tag = "numeric"

\* Row object j of the table has exactly the columns as keys, one key per
\* column, and under columns[i] the value data[j][i].
RowMatches(obj, columns, row) ==
    /\ DOMAIN obj = Range(columns)
    /\ Cardinality(DOMAIN obj) = Len(columns)
    /\ \A i \in DOMAIN columns :
          columns[i] \in DOMAIN obj /\ obj[columns[i]] = row[i]

RowsMatch(p) ==
    /\ Len(el.table.data) = Len(p.data)
    /\ \A j \in DOMAIN p.data :
          RowMatches(el.table.data[j], p.columns.items, p.data[j])

ErrorShown(name) ==
    /\ ErrorClass \in el.classList
    /\ el.innerText = "Error rendering " \o name

\* No error marker, no text, no table.
Cleared(e) ==
    /\ ErrorClass \notin e.classList
    /\ e.innerText = ""
    /\ ~e.table.present

CallbackFor(method) ==
    CASE method = "renderValue" -> "onRender"
      [] method = "renderError" -> "onError"
      [] method = "clearError"  -> "onClearError"

\* The last two events were renderError then clearError, both handled by
\* the default callbacks.
DefaultRoundTrip ==
    /\ Len(calls) >= 2
    /\ calls[Len(calls) - 1] = Call("onError", "default")
    /\ calls[Len(calls)] = Call("onClearError", "default")

----------------------------------------------------------------------------
(* C1 *)

\* C1 as stated: after a render of a valid payload the table holds
\* data.length row objects, each with exactly the columns as its keys
\* (columns.length of them) and data[j][i] under columns[i].
C1_RowObjectsOriginal ==
    (RenderedOK /\ ValidPayload(last.payload)) => RowsMatch(last.payload)

\* C1 amended: the same, for valid payloads whose column names are pairwise
\* distinct and do not include "__proto__".
C1_RowObjects ==
    (/\ RenderedOK
     /\ ValidPayload(last.payload)
     /\ Distinct(last.payload.columns.items)
     /\ "__proto__" \notin Range(last.payload.columns.items))
    => RowsMatch(last.payload)

C1_Witness ==
    /\ RenderedOK
    /\ ValidPayload(last.payload)
    /\ last.payload.columns.items = <<"name", "mpg">>
    /\ last.payload.data = << <<"Mazda RX4", "21.0">>, <<"21.0", "21.0">> >>
    /\ el.table.present

----------------------------------------------------------------------------
(* C2 *)

\* C2: column i of the rendered table is aligned "right" if type_hints[i]
\* denotes numeric, as a bare string or as an object with that type, and
\* "left" otherwise.
C2_Alignment ==
    RenderedOK =>
        \A i \in DOMAIN el.table.columns :
            el.table.columns[i].hozAlign =
                IF DenotesNumeric(HintAt(last.payload.type_hints, i))
                THEN "right" ELSE "left"

----------------------------------------------------------------------------
(* C3 *)

----------------------------------------------------------------------------
(* C4 *)

\* C4: after renderError on a binding created without onError the element
\* carries the class "shiny-output-error" and the text "Error rendering "
\* followed by the binding's name; on a binding with a custom onError only
\* that callback ran and the element is as the callback left it.
C4_ErrorDisplay ==
    last.op = "renderError" =>
        IF last.config.onError = "default"
        THEN /\ ErrorShown(last.config.name)
             /\ calls[Len(calls)] = Call("onError", "default")
        ELSE /\ el = customCallback(prior.one)
             /\ calls[Len(calls)] = Call("onError", "custom")

C4_Witness ==
    /\ last.op = "renderError"
    /\ last.config.onError = "default"
    /\ prior.one.table.present
    /\ ErrorShown(last.config.name)

----------------------------------------------------------------------------
(* C5 *)

\* C5 as stated: renderError then clearError, with the default callbacks,
\* leaves the element without marker and text, and equal to what it was
\* before the renderError.
C5_RoundTripOriginal ==
    DefaultRoundTrip => (Cleared(el) /\ el = prior.two)

\* C5 amended: renderError then clearError, with the default callbacks,
\* leaves the element without marker, text and table; that is the state
\* before the renderError exactly when the element was then already
\* without marker, text and table.
C5_RoundTrip ==
    DefaultRoundTrip =>
        /\ Cleared(el)
        /\ (el = prior.two) <=> Cleared(prior.two)

C5_Witness ==
    /\ DefaultRoundTrip
    /\ prior.two.table.present
    /\ Cleared(el)

----------------------------------------------------------------------------
(* C6 *)

----------------------------------------------------------------------------
(* C7 *)

\* C7: a renderValue with a malformed payload ends with the error shown on
\* the element (marker and message), no table, and nothing thrown.
C7_MalformedSurfaced ==
    (last.op = "renderValue" /\ MalformedPayload(last.payload)) =>
        /\ ~last.threw
        /\ ~el.table.present
        /\ ErrorShown(last.config.name)

----------------------------------------------------------------------------
(* C8 *)

----------------------------------------------------------------------------
(* C9 *)

\* C9 as stated: after a render that returned, the element shows the table
\* with no error marker and no error text.
C9_RenderedOriginal ==
    RenderedOK =>
        /\ el.table.present
        /\ el.innerText = ""
        /\ ErrorClass \notin el.classList

\* C9 amended: after a render that returned, the element shows the table
\* with no error text, and its classes are those it had before the render:
\* the error marker is absent exactly when it was absent before.
C9_Rendered ==
    RenderedOK =>
        /\ el.table.present
        /\ el.innerText = ""
        /\ el.classList = prior.one.classList

C9_Witness ==
    /\ RenderedOK
    /\ Len(events) >= 2
    /\ events[Len(events) - 1] = "renderError"
    /\ ErrorClass \in prior.one.classList
    /\ ErrorClass \in el.classList
    /\ el.table.present

----------------------------------------------------------------------------
(* C10 *)

\* C10: the binding has invoked one callback per event delivered, the one
\* configured for that event, in delivery order; and a renderValue whose
\* onRender throws lets the error out and leaves the element untouched.
C10_OneCallbackPerEvent ==
    /\ Len(calls) = Len(events)
    /\ \A i \in DOMAIN events : calls[i].fn = CallbackFor(events[i])
    /\ (last.op = "renderValue" /\ ~last.payload.columns.isArray) =>
          (last.threw /\ el = prior.one)
    /\ last.op = "renderError" =>
          calls[Len(calls)].impl = last.config.onError
    /\ last.op = "clearError" =>
          calls[Len(calls)].impl = last.config.onClearError

C10_Witness ==
    /\ last.op = "renderValue"
    /\ last.threw
    /\ Len(events) >= 2
    /\ events[Len(events) - 1] = "renderError"
    /\ Len(calls) = Len(events)

====
